---- MODULE Spec2Model ----
(***************************************************************************)
(* texit: a command-line converter that adds TeX syntax to the lines of a  *)
(* text file according to the marker each line starts with.                *)
(*                                                                         *)
(* Strings are sequences of one-character strings, so that prefix          *)
(* matching, stripping and concatenation are computed, not assumed.        *)
(***************************************************************************)
EXTENDS Integers, Sequences, FiniteSets, TLC

(***************************************************************************)
(* Bounds of the model.                                                    *)
(***************************************************************************)
\* longest run of free characters appended to a line head
MaxTail == 3
\* most lines in an input file
MaxLines == 2
\* most times the overwrite prompt is repeated
MaxPrompts == 2

(***************************************************************************)
(* The constant tables (texit.py, lines 12-45).                            *)
(***************************************************************************)
ctt_type == [text |-> <<"\\", "t", "e", "x", "t">>]

size == [large |-> <<"\\", "l", "a", "r", "g", "e">>]

brace == [open |-> <<"{">>, close |-> <<"}">>]

common ==
  [tex_dollars |-> <<"$", "$">>,
   large_txt   |-> size.large \o ctt_type.text \o brace.open,
   end_slash   |-> <<"\\", "\\">>]

m_bp  == <<"-", "b", "p">>
m_bf  == <<"-", "b", "f">>
m_br  == <<"-", "b", "r">>
m_bbr == <<"-", "b", "b", "r">>
m_und == <<"-", "u", "n", "d">>

needs_2nd_close_brace_none == {}

needs_2nd_close_brace == {m_und}

mapping_same_breaks ==
  (m_bp  :> (<<"\\", "b", "u", "l", "l", "e", "t">> \o common.large_txt \o <<" ">>)) @@
  (m_bf  :> (size.large \o <<"\\", "t", "e", "x", "t", "b", "f", "{">>)) @@
  (m_br  :> <<"$", "$", "$", "$">>) @@
  (m_bbr :> <<"$", "$", "$", "$">>) @@
  (m_und :> (<<"\\", "u", "n", "d", "e", "r", "l", "i", "n", "e", "{">> \o common.large_txt))

mapping ==
  (m_bp  :> (<<"\\", "b", "u", "l", "l", "e", "t">> \o common.large_txt \o <<" ">>)) @@
  (m_bf  :> (size.large \o <<"\\", "t", "e", "x", "t", "b", "f", "{">>)) @@
  (m_br  :> <<"$", "$", "$", "$">>) @@
  (m_bbr :> <<"$", "$", " ", "$", "$">>) @@
  (m_und :> (<<"\\", "u", "n", "d", "e", "r", "l", "i", "n", "e", "{">> \o common.large_txt))

\* mapping.keys(), in the insertion order of the dict
mapping_keys == <<m_bp, m_bf, m_br, m_bbr, m_und>>

(***************************************************************************)
(* The recognition pattern (lines 47-53).                                  *)
(***************************************************************************)
\* the alternatives of the marker group without a trailing empty one
starts_no_empty == mapping_keys

\* '^-bp|^-bf|^-br|^-bbr|^-und|': every key is followed by '|', so the last
\* alternative of the group is the empty string
starts == mapping_keys \o << <<>> >>

\* the value of a group that took no part in the match
None == <<"None">>

StartsWith(s, p) ==
  /\ Len(p) <= Len(s)
  /\ \A i \in 1..Len(p) : s[i] = p[i]

RECURSIVE FirstAlternative(_, _, _)
\* the regex engine tries the alternatives left to right and keeps the first
\* that matches at the start of the line
FirstAlternative(alts, i, line) ==
  IF i > Len(alts) THEN None
  ELSE IF StartsWith(line, alts[i]) THEN alts[i]
  ELSE FirstAlternative(alts, i + 1, line)

\* match.group('marker') of (?P<marker>...)?
group_marker(line) == FirstAlternative(starts, 1, line)

RECURSIVE SkipSpaces(_)
\* ([ ]*)? : greedy run of spaces
SkipSpaces(s) ==
  IF s # <<>> /\ Head(s) = " " THEN SkipSpaces(Tail(s)) ELSE s

RECURSIVE UpToNewline(_)
\* (?P<text>.*)? : '.' matches every character but the newline
UpToNewline(s) ==
  IF s = <<>> \/ Head(s) = "\n" THEN <<>>
  ELSE <<Head(s)>> \o UpToNewline(Tail(s))

\* match.group('text')
group_text(line) ==
  LET marker == group_marker(line)
      consumed == IF marker = None THEN 0 ELSE Len(marker)
  IN UpToNewline(SkipSpaces(SubSeq(line, consumed + 1, Len(line))))

(***************************************************************************)
(* add_tex_syntax (lines 145-192).  The result is either a returned string *)
(* or a raised exception.                                                  *)
(***************************************************************************)
Returned(s) == [raised |-> "", value |-> s]

Raised(e, partial) == [raised |-> e, value |-> partial]

\* lines 157-159: the branch taken when the marker group is None
none_branch(text) == common.large_txt \o text \o common.end_slash

plain_text_branch_no_brace(text) ==
  common.large_txt \o text \o common.end_slash

\* lines 172-175: text with the empty marker
plain_text_branch(text) ==
  common.large_txt \o text \o brace.close \o common.end_slash

\* lines 182-190: a marker with an opening fragment
marker_branch(marker, text) ==
  mapping[marker] \o text \o brace.close \o
    (IF marker \in needs_2nd_close_brace THEN brace.close
     ELSE common.end_slash)

add_tex_syntax(line) ==
  LET marker == group_marker(line)
      text == group_text(line)
      modified == IF marker = None THEN none_branch(text) ELSE <<>>
  IN IF marker = m_br THEN Returned(modified \o mapping[m_br])
     ELSE IF marker = m_bbr THEN Returned(modified \o mapping[m_bbr])
     ELSE IF marker = <<>> /\ text # <<>>
       THEN Returned(modified \o plain_text_branch(text))
     ELSE IF marker = <<>> /\ text = <<>>
       THEN Returned(modified \o mapping[m_br])
     ELSE IF marker \in DOMAIN mapping
       THEN Returned(modified \o marker_branch(marker, text))
     ELSE Raised("KeyError", modified)

(***************************************************************************)
(* State.  The first three variables hold one call of add_tex_syntax on    *)
(* its own; the others are the state of a run of main().                   *)
(***************************************************************************)
VARIABLES
  line,                 \* the argument of add_tex_syntax
  result,               \* what the call returned or raised
  tpc,                  \* "idle", "call" or "returned"
  argv,                 \* sys.argv
  fs,                   \* the files that exist: path -> content
  fs0,                  \* the files that existed when the run started
  in_fault,             \* how reading the input file fails, if it does
  pc,                   \* the position of main()
  infile_name,          \* global infile_name
  outfile_path,         \* local outfile_path, None until derived
  overwrite_permission, \* the last answer to the overwrite prompt
  file_overwritten,     \* local file_overwritten
  prompts,              \* how many times the prompt was answered
  in_pos,               \* characters of the input file already read
  opened_w,             \* paths opened with mode 'w'
  status,               \* the exit status of the process, -1 while running
  outcome               \* how the run ended

transform_vars == <<line, result, tpc>>

driver_vars ==
  <<argv, fs, fs0, in_fault, pc, infile_name, outfile_path,
    overwrite_permission, file_overwritten, prompts, in_pos, opened_w,
    status, outcome>>

vars == <<line, result, tpc, argv, fs, fs0, in_fault, pc, infile_name,
          outfile_path, overwrite_permission, file_overwritten, prompts,
          in_pos, opened_w, status, outcome>>

NoResult == [raised |-> "", value |-> None]

EmptyFs == [p \in {} |-> <<>>]

TransformIdle ==
  /\ line = <<>>
  /\ result = NoResult
  /\ tpc = "idle"

DriverIdle ==
  /\ argv = <<>>
  /\ fs = EmptyFs
  /\ fs0 = EmptyFs
  /\ in_fault = "none"
  /\ pc = "idle"
  /\ infile_name = <<>>
  /\ outfile_path = None
  /\ overwrite_permission = None
  /\ file_overwritten = FALSE
  /\ prompts = 0
  /\ in_pos = 0
  /\ opened_w = {}
  /\ status = -1
  /\ outcome = "running"

(***************************************************************************)
(* One call of add_tex_syntax on a line drawn from a bounded set: a head   *)
(* that is a marker, a near miss of a marker or nothing, followed by up to *)
(* MaxTail free characters.                                                *)
(***************************************************************************)
Heads ==
  {<<>>, m_bp, m_bf, m_br, m_bbr, m_und,
   <<"-">>, <<"-", "b">>, <<"-", "b", "b">>, <<"-", "u", "n">>, <<" ">> \o m_bp}

TailAlphabet == {" ", "x", "r", "\n"}

Tails == UNION {[1..n -> TailAlphabet] : n \in 0..MaxTail}

Lines == {h \o t : h \in Heads, t \in Tails}

InitT ==
  /\ line \in Lines
  /\ result = NoResult
  /\ tpc = "call"
  /\ DriverIdle

AddTexSyntax ==
  /\ tpc = "call"
  /\ result' = add_tex_syntax(line)
  /\ tpc' = "returned"
  /\ UNCHANGED <<line>>
  /\ UNCHANGED driver_vars

NextT == AddTexSyntax

SpecT == InitT /\ [][NextT]_vars

(***************************************************************************)
(* What the properties of add_tex_syntax say about a line, stated on the   *)
(* characters of the line and not through the matcher.                     *)
(***************************************************************************)
FixedMarkers == {m_bp, m_bf, m_br, m_bbr, m_und}

BeginsWith(s, m) == Len(s) >= Len(m) /\ SubSeq(s, 1, Len(m)) = m

BeginsWithNoMarker(s) == \A m \in FixedMarkers : ~BeginsWith(s, m)

\* the text of s from position from on: leading spaces dropped, cut before
\* the first newline
TextFrom(s, from) ==
  LET b == CHOOSE k \in from..(Len(s) + 1) :
             /\ \A i \in from..(k - 1) : s[i] = " "
             /\ k = Len(s) + 1 \/ s[k] # " "
      e == CHOOSE k \in b..(Len(s) + 1) :
             /\ \A i \in b..(k - 1) : s[i] # "\n"
             /\ k = Len(s) + 1 \/ s[k] = "\n"
  IN [i \in 1..(e - b) |-> s[b + i - 1]]

LargeTextOpen == <<"\\", "l", "a", "r", "g", "e", "\\", "t", "e", "x", "t", "{">>

Continuation == <<"\\", "\\">>

Called == tpc = "returned"

C2_Total ==
  Called =>
    /\ result.raised = ""
    /\ result.value # None
    /\ \A i \in 1..Len(result.value) : result.value[i] \in STRING

C2_Witness ==
  /\ Called
  /\ line = <<" ", "\n">>
  /\ result = Returned(<<"$", "$", "$", "$">>)

BulletOpen ==
  <<"\\", "b", "u", "l", "l", "e", "t", "\\", "l", "a", "r", "g", "e",
    "\\", "t", "e", "x", "t", "{", " ">>

BoldOpen == <<"\\", "l", "a", "r", "g", "e", "\\", "t", "e", "x", "t", "b", "f", "{">>

UnderlineOpen ==
  <<"\\", "u", "n", "d", "e", "r", "l", "i", "n", "e", "{",
    "\\", "l", "a", "r", "g", "e", "\\", "t", "e", "x", "t", "{">>

\* C3: a line that begins with -bp, -bf or -und is returned as the marker's
\* template, the text after the marker (leading spaces dropped), a closing
\* brace, and then a second closing brace for -und or the continuation
\* token for -bp and -bf.
C3_OpeningMarkers ==
  Called =>
    /\ BeginsWith(line, m_bp) =>
         result = Returned(BulletOpen \o TextFrom(line, 4) \o <<"}">> \o Continuation)
    /\ BeginsWith(line, m_bf) =>
         result = Returned(BoldOpen \o TextFrom(line, 4) \o <<"}">> \o Continuation)
    /\ BeginsWith(line, m_und) =>
         result = Returned(UnderlineOpen \o TextFrom(line, 5) \o <<"}", "}">>)

C3_Witness ==
  /\ Called
  /\ line = m_und \o <<" ", "x", "r">>
  /\ result.value = UnderlineOpen \o <<"x", "r", "}", "}">>

\* C4: a line that begins with -br is returned as `$$$$` and a line that
\* begins with -bbr as `$$ $$`, whatever follows the marker.
C4_Breaks ==
  Called =>
    /\ BeginsWith(line, m_br) => result = Returned(<<"$", "$", "$", "$">>)
    /\ BeginsWith(line, m_bbr) => result = Returned(<<"$", "$", " ", "$", "$">>)

C4_Witness ==
  /\ Called
  /\ line = m_bbr \o <<" ", "x">>
  /\ result.value = <<"$", "$", " ", "$", "$">>

(***************************************************************************)
(* main(), lines 58-127: one run of the driver.                            *)
(***************************************************************************)
\* \w restricted to the characters the paths of the model are made of
WordChars == {"a", "b", "n", "t", "x", "e", "i", "o", "u", "_"}

\* [-\w\.]
NameChars == WordChars \cup {"-", "."}

\* re.match(infile_pattern, path), line 75-76: the lazy origin is the
\* shortest prefix after which the rest matches, the greedy name is the
\* longest run of name characters that still leaves an extension, and the
\* extension is a dot followed by word characters up to the end.  NoMatch
\* (the None that re.match returns) when there is no such split.
NoMatch == [origin |-> None, name |-> None, ext |-> None]

infile_match(path) ==
  LET n == Len(path)
      Splits == {ij \in (0..n) \X (0..n) :
                   /\ ij[1] <= ij[2]
                   /\ ij[2] < n
                   /\ \A k \in (ij[1] + 1)..ij[2] : path[k] \in NameChars
                   /\ path[ij[2] + 1] = "."
                   /\ \A k \in (ij[2] + 2)..n : path[k] \in WordChars}
  IN IF Splits = {} THEN NoMatch
     ELSE LET i == CHOOSE a \in {ij[1] : ij \in Splits} :
                     \A ij \in Splits : a <= ij[1]
              j == CHOOSE b \in {ij[2] : ij \in {x \in Splits : x[1] = i}} :
                     \A ij \in {x \in Splits : x[1] = i} : b >= ij[2]
          IN [origin |-> SubSeq(path, 1, i),
              name   |-> SubSeq(path, i + 1, j),
              ext    |-> SubSeq(path, j + 1, n)]

outfile_name_keeps_txt(m) == m.name \o <<".", "t", "x", "t">>

\* line 79
outfile_name(m) ==
  m.name \o <<"_", "t", "e", "x", "i", "t", "_", "o", "u", "t", ".", "t", "x", "t">>

\* lines 78-80
derive_outfile_path(m) == m.origin \o outfile_name(m)

\* str.lower() on the characters an answer is made of
lower(str) ==
  [i \in 1..Len(str) |->
     IF str[i] = "N" THEN "n" ELSE IF str[i] = "Y" THEN "y" ELSE str[i]]

\* `a in b` for two strings: a is a substring of b
str_in(a, b) ==
  \E i \in 0..(Len(b) - Len(a)) : SubSeq(b, i + 1, i + Len(a)) = a

\* infile.readline() at position pos: up to and including the next newline
readline(content, pos) ==
  LET rest == SubSeq(content, pos + 1, Len(content))
      ends == {k \in 1..Len(rest) : rest[k] = "\n"}
  IN IF ends = {} THEN rest
     ELSE SubSeq(rest, 1, CHOOSE k \in ends : \A e \in ends : k <= e)

process_files_write_no_newline(content, ln) ==
  content \o add_tex_syntax(ln).value

\* lines 141-142: the two writes of one iteration of process_files
process_files_write(content, ln) ==
  content \o add_tex_syntax(ln).value \o <<"\n">>

\* lines 105-106 and 108-109
write_delimiter(content) == content \o common.tex_dollars \o <<"\n">>

Exit(code, how) ==
  /\ pc' = "exited"
  /\ status' = code
  /\ outcome' = how

\* lines 60-66
CheckArguments ==
  /\ pc = "start"
  /\ IF Len(argv) # 2
       THEN /\ Exit(1, "usage")
            /\ UNCHANGED infile_name
       ELSE /\ infile_name' = argv[2]
            /\ pc' = "check_input"
            /\ UNCHANGED <<status, outcome>>
  /\ UNCHANGED <<argv, fs, fs0, in_fault, outfile_path, overwrite_permission,
                 file_overwritten, prompts, in_pos, opened_w>>
  /\ UNCHANGED transform_vars

\* lines 68-72
CheckInputExists ==
  /\ pc = "check_input"
  /\ IF infile_name \notin DOMAIN fs
       THEN Exit(2, "file_nonexistent")
       ELSE /\ pc' = "derive"
            /\ UNCHANGED <<status, outcome>>
  /\ UNCHANGED <<argv, fs, fs0, in_fault, infile_name, outfile_path,
                 overwrite_permission, file_overwritten, prompts, in_pos,
                 opened_w>>
  /\ UNCHANGED transform_vars

\* lines 74-83: infile_match.group() raises AttributeError when the pattern
\* did not match, and the uncaught exception ends the process with status 1
DeriveOutputPath ==
  /\ pc = "derive"
  /\ IF infile_match(infile_name) = NoMatch
       THEN /\ Exit(1, "crash_no_match")
            /\ UNCHANGED outfile_path
       ELSE /\ outfile_path' = derive_outfile_path(infile_match(infile_name))
            /\ pc' = "check_output"
            /\ UNCHANGED <<status, outcome>>
  /\ UNCHANGED <<argv, fs, fs0, in_fault, infile_name, overwrite_permission,
                 file_overwritten, prompts, in_pos, opened_w>>
  /\ UNCHANGED transform_vars

\* line 86-87
CheckOutputExists ==
  /\ pc = "check_output"
  /\ pc' = IF outfile_path \in DOMAIN fs THEN "prompt" ELSE "open_outfile"
  /\ UNCHANGED <<argv, fs, fs0, in_fault, infile_name, outfile_path,
                 overwrite_permission, file_overwritten, prompts, in_pos,
                 opened_w, status, outcome>>
  /\ UNCHANGED transform_vars

Responses ==
  {<<>>, <<"n">>, <<"N">>, <<"y">>, <<"Y">>, <<"x">>, <<"n", "o">>}

\* lines 89-99, one iteration of the loop on an answer read by input();
\* sys.exit(<str>) prints the string and ends the process with status 1
Prompt ==
  /\ pc = "prompt"
  /\ \E answer \in Responses :
       /\ overwrite_permission' = answer
       /\ IF str_in(lower(answer), <<"n">>)
            THEN /\ Exit(1, "declined")
                 /\ UNCHANGED <<file_overwritten, prompts>>
            ELSE IF str_in(lower(answer), <<"y">>)
              THEN /\ file_overwritten' = TRUE
                   /\ pc' = "open_outfile"
                   /\ UNCHANGED <<prompts, status, outcome>>
              ELSE /\ prompts < MaxPrompts
                   /\ prompts' = prompts + 1
                   /\ UNCHANGED <<pc, file_overwritten, status, outcome>>
  /\ UNCHANGED <<argv, fs, fs0, in_fault, infile_name, outfile_path, in_pos,
                 opened_w>>
  /\ UNCHANGED transform_vars

\* line 90 when standard input is at its end: input() raises EOFError
PromptEndOfInput ==
  /\ pc = "prompt"
  /\ Exit(1, "crash_eof")
  /\ UNCHANGED <<argv, fs, fs0, in_fault, infile_name, outfile_path,
                 overwrite_permission, file_overwritten, prompts, in_pos,
                 opened_w>>
  /\ UNCHANGED transform_vars

\* line 101: mode 'w' creates the file or truncates it
OpenOutfile ==
  /\ pc = "open_outfile"
  /\ fs' = (outfile_path :> <<>>) @@ fs
  /\ opened_w' = opened_w \cup {outfile_path}
  /\ pc' = "open_infile"
  /\ UNCHANGED <<argv, fs0, in_fault, infile_name, outfile_path,
                 overwrite_permission, file_overwritten, prompts, in_pos,
                 status, outcome>>
  /\ UNCHANGED transform_vars

\* line 104: open(infile_name, 'r') raises when the path cannot be opened
\* for reading (no permission, a directory)
OpenInfile ==
  /\ pc = "open_infile"
  /\ IF in_fault = "open"
       THEN Exit(1, "crash_open")
       ELSE /\ pc' = "write_head"
            /\ UNCHANGED <<status, outcome>>
  /\ UNCHANGED <<argv, fs, fs0, in_fault, infile_name, outfile_path,
                 overwrite_permission, file_overwritten, prompts, in_pos,
                 opened_w>>
  /\ UNCHANGED transform_vars

\* lines 105-106
WriteHead ==
  /\ pc = "write_head"
  /\ fs' = [fs EXCEPT ![outfile_path] = write_delimiter(@)]
  /\ pc' = "process_files"
  /\ UNCHANGED <<argv, fs0, in_fault, infile_name, outfile_path,
                 overwrite_permission, file_overwritten, prompts, in_pos,
                 opened_w, status, outcome>>
  /\ UNCHANGED transform_vars

\* lines 134-142, one iteration of the loop of process_files.  readline()
\* raises UnicodeDecodeError on bytes that are not utf-8; an exception of
\* add_tex_syntax would end the run the same way.  What was written before
\* an exception stays in the file (it is flushed when the file object is
\* finalized).
ProcessLine ==
  /\ pc = "process_files"
  /\ LET ln == readline(fs[infile_name], in_pos)
     IN IF in_fault = "decode"
          THEN /\ Exit(1, "crash_decode")
               /\ UNCHANGED <<fs, in_pos>>
          ELSE IF ln = <<>>
            THEN /\ pc' = "write_tail"
                 /\ UNCHANGED <<fs, in_pos, status, outcome>>
            ELSE IF add_tex_syntax(ln).raised # ""
              THEN /\ Exit(1, "crash_transform")
                   /\ in_pos' = in_pos + Len(ln)
                   /\ UNCHANGED fs
              ELSE /\ fs' = [fs EXCEPT ![outfile_path] = process_files_write(@, ln)]
                   /\ in_pos' = in_pos + Len(ln)
                   /\ UNCHANGED <<pc, status, outcome>>
  /\ UNCHANGED <<argv, fs0, in_fault, infile_name, outfile_path,
                 overwrite_permission, file_overwritten, prompts, opened_w>>
  /\ UNCHANGED transform_vars

\* lines 108-109
WriteTail ==
  /\ pc = "write_tail"
  /\ fs' = [fs EXCEPT ![outfile_path] = write_delimiter(@)]
  /\ pc' = "close"
  /\ UNCHANGED <<argv, fs0, in_fault, infile_name, outfile_path,
                 overwrite_permission, file_overwritten, prompts, in_pos,
                 opened_w, status, outcome>>
  /\ UNCHANGED transform_vars

\* lines 111-127: close the output file, print the summary, return
CloseAndSummarise ==
  /\ pc = "close"
  /\ Exit(0, "converted")
  /\ UNCHANGED <<argv, fs, fs0, in_fault, infile_name, outfile_path,
                 overwrite_permission, file_overwritten, prompts, in_pos,
                 opened_w>>
  /\ UNCHANGED transform_vars

(***************************************************************************)
(* The runs of the model: the command line, the files that exist and the   *)
(* way the input file can fail to be read.                                 *)
(***************************************************************************)
texit_out_txt ==
  <<"_", "t", "e", "x", "i", "t", "_", "o", "u", "t", ".", "t", "x", "t">>

Paths ==
  {<<"n", ".", "t", "x", "t">>,
   <<"/", "a", "/", "n", ".", "t", "x", "t">>,
   <<"n">>,
   <<"/", "a", ".", "b", "/", "n">>,
   <<".", "x">>,
   <<"a", ".", "b", ".", "t">>,
   <<"a", " ", "n", ".", "t">>,
   <<"n", ".", "t", "-", "x">>,
   <<"n", ".">>,
   <<"n">> \o texit_out_txt}

\* files that may exist beside the input file
OtherPaths ==
  {<<"n">> \o texit_out_txt,
   <<"/", "a", "/", "n">> \o texit_out_txt,
   <<"a", ".", "b">> \o texit_out_txt,
   <<"n">> \o SubSeq(texit_out_txt, 1, 10) \o texit_out_txt,
   <<"n", ".", "t", "x", "t">>}

OldContent == <<"o", "l", "d", "\n">>

FileLines == {<<>>, <<"x">>, m_bbr \o <<"x">>, m_und \o <<" ", "x">>}

RECURSIVE JoinLines(_, _)
\* the lines, each ended by a newline but for the last when final is FALSE
JoinLines(ls, final) ==
  IF ls = <<>> THEN <<>>
  ELSE IF Len(ls) = 1 THEN Head(ls) \o (IF final THEN <<"\n">> ELSE <<>>)
  ELSE Head(ls) \o <<"\n">> \o JoinLines(Tail(ls), final)

Contents ==
  {JoinLines(ls, final) :
     ls \in UNION {[1..n -> FileLines] : n \in 0..MaxLines},
     final \in BOOLEAN}

Init ==
  /\ TransformIdle
  /\ \E args \in {<<>>} \cup {<<p>> : p \in Paths}
             \cup {<<<<"n", ".", "t", "x", "t">>, <<"n">>>>} :
       argv = <<<<"texit.py">>>> \o args
  /\ \E present \in BOOLEAN, content \in Contents,
        others \in {{}} \cup {{q} : q \in OtherPaths} :
       LET input == IF present /\ Len(argv) >= 2 THEN {argv[2]} ELSE {}
       IN /\ present \/ content = <<>>
          /\ fs = [p \in input \cup others |->
                     IF p \in input THEN content ELSE OldContent]
  /\ fs0 = fs
  /\ in_fault \in {"none", "open", "decode"}
  /\ in_fault = "decode" => \E p \in DOMAIN fs : Len(argv) >= 2 /\ p = argv[2] /\ fs[p] # <<>>
  /\ pc = "start"
  /\ infile_name = <<>>
  /\ outfile_path = None
  /\ overwrite_permission = None
  /\ file_overwritten = FALSE
  /\ prompts = 0
  /\ in_pos = 0
  /\ opened_w = {}
  /\ status = -1
  /\ outcome = "running"

Next ==
  \/ CheckArguments
  \/ CheckInputExists
  \/ DeriveOutputPath
  \/ CheckOutputExists
  \/ Prompt
  \/ PromptEndOfInput
  \/ OpenOutfile
  \/ OpenInfile
  \/ WriteHead
  \/ ProcessLine
  \/ WriteTail
  \/ CloseAndSummarise

Spec == Init /\ [][Next]_vars

(***************************************************************************)
(* What the properties of the driver say, stated on the characters of the  *)
(* files and paths.                                                        *)
(***************************************************************************)
Positions(s, c) == {k \in 1..Len(s) : s[k] = c}

Max(S) == CHOOSE m \in S : \A k \in S : k <= m

\* the number of lines of a text: a last line without a newline counts
NumLines(s) ==
  Cardinality(Positions(s, "\n")) +
    (IF s # <<>> /\ s[Len(s)] # "\n" THEN 1 ELSE 0)

\* the k-th line of a text, with its newline when it has one
LineAt(s, k) ==
  LET nl == Positions(s, "\n")
      first == IF k = 1 THEN 1
               ELSE 1 + CHOOSE e \in nl : Cardinality({x \in nl : x <= e}) = k - 1
      after == {e \in nl : e >= first}
      last  == IF after = {} THEN Len(s)
               ELSE CHOOSE e \in after : \A x \in after : e <= x
  IN [i \in 1..(last - first + 1) |-> s[first + i - 1]]

Delimiter == <<"$", "$", "\n">>

\* out is the complete conversion of inp
IsConversionOf(out, inp) ==
  LET N == NumLines(inp)
  IN /\ NumLines(out) = N + 2
     /\ out[Len(out)] = "\n"
     /\ LineAt(out, 1) = Delimiter
     /\ \A i \in 1..N :
          LineAt(out, i + 1) =
            add_tex_syntax(LineAt(inp, i)).value \o <<"\n">>
     /\ LineAt(out, N + 2) = Delimiter

\* C5: a completed conversion of a file of N lines leaves N+2 lines in the
\* output file: `$$`, the transform of each input line in order, `$$`, each
\* ended by one newline; a last line without a newline counts as a line.
C5_Conversion ==
  outcome = "converted" =>
    /\ outfile_path \in DOMAIN fs
    /\ IsConversionOf(fs[outfile_path], fs0[infile_name])

C5_Witness ==
  /\ outcome = "converted"
  /\ fs0[infile_name] = <<"x", "\n">> \o m_und \o <<" ", "x">>
  /\ NumLines(fs[outfile_path]) = 4

\* C6 (as stated): the prompt loop is left on an answer only when the answer
\* is y or n, compared case-insensitively: n ends the run with the files
\* unchanged and y goes on to overwrite.
C6_AsStated ==
  (pc # "prompt" /\ overwrite_permission # None /\ outcome # "crash_eof") =>
    /\ lower(overwrite_permission) \in {<<"y">>, <<"n">>}
    /\ outcome = "declined" => (lower(overwrite_permission) = <<"n">> /\ fs = fs0)
    /\ file_overwritten => lower(overwrite_permission) = <<"y">>

\* C7 (as stated): when the run has ended, the output file holds the
\* complete conversion or every file is exactly as it was before the run,
\* also when reading the input failed.
C7_AsStated ==
  pc = "exited" =>
    \/ fs = fs0
    \/ /\ outfile_path # None
       /\ outfile_path \in DOMAIN fs
       /\ infile_name \in DOMAIN fs0
       /\ IsConversionOf(fs[outfile_path], fs0[infile_name])

\* C8 (as stated): a wrong argument count ends with status 1 and a missing
\* input file with status 2, both before an output file is opened; a
\* conversion ends with status 0; declining the overwrite ends with a
\* status that is neither 1 nor 2.
C8_AsStated ==
  /\ (pc = "exited" /\ Len(argv) # 2) => (status = 1 /\ opened_w = {} /\ fs = fs0)
  /\ (pc = "exited" /\ Len(argv) = 2 /\ argv[2] \notin DOMAIN fs0) =>
       (status = 2 /\ opened_w = {} /\ fs = fs0)
  /\ outcome = "converted" => status = 0
  /\ outcome = "declined" => status \notin {1, 2}

\* the directory part of a path, the file name with its extension (from the
\* last dot on) removed, and the suffix
ExpectedOutputPath(path) ==
  LET slashes == Positions(path, "/")
      d == IF slashes = {} THEN 0 ELSE Max(slashes)
      dots == {k \in Positions(path, ".") : k > d}
      e == IF dots = {} THEN Len(path) ELSE Max(dots) - 1
  IN SubSeq(path, 1, e) \o
       <<"_", "t", "e", "x", "i", "t", "_", "o", "u", "t", ".", "t", "x", "t">>

\* C9 (as stated): for every input path that names an existing file the
\* driver derives directory + name without extension + `_texit_out.txt`
\* and goes on to the conversion with it.
C9_AsStated ==
  (/\ Len(argv) = 2
   /\ argv[2] \in DOMAIN fs0
   /\ pc \notin {"start", "check_input", "derive"}) =>
    /\ outcome # "crash_no_match"
    /\ outfile_path = ExpectedOutputPath(argv[2])

\* C10: the derived output path is never the input path, so the input file
\* is never opened for writing and never changes, also when the input is
\* itself a previous output.
C10_InputUntouched ==
  /\ outfile_path # None => outfile_path # infile_name
  /\ Len(argv) = 2 =>
       /\ argv[2] \notin opened_w
       /\ argv[2] \in DOMAIN fs0 =>
            (argv[2] \in DOMAIN fs /\ fs[argv[2]] = fs0[argv[2]])

C10_Witness ==
  /\ outcome = "converted"
  /\ infile_name = <<"n">> \o texit_out_txt
  /\ outfile_path = <<"n">> \o SubSeq(texit_out_txt, 1, 10) \o texit_out_txt
  /\ opened_w = {outfile_path}

====
